---- MODULE Spec2Model ----
(***************************************************************************)
(* Model of src/Tempapp.py: the streamlit script that computes the contact *)
(* temperature rise dTc from seven numeric inputs, two 1D sensitivity      *)
(* sweeps, a 25 x 25 heatmap and a one-row CSV record.                     *)
(*                                                                         *)
(* Numbers.  The inputs are exact rationals held as integers:              *)
(*   mu, r, r_d, b, b_PTFE  in whole widget units,                         *)
(*   Fn, v                  in 1/Unit of a widget unit, so that every      *)
(*                          sample of the script's linspace calls is an    *)
(*                          integer (the steps are base/10 and base/16).   *)
(* A result of calc_delta_Tc is a record [kind, lg]:                       *)
(*   kind = "pos"  a positive real; lg = 100 * 2^LgBits * log2 of it       *)
(*   kind = "neg"  a negative real; lg as for its absolute value           *)
(*   kind = "zero" the float 0.0                                           *)
(*   kind = "complex"  a Python complex number (negative base, fractional  *)
(*                     exponent)                                           *)
(*   kind = "ZeroDivisionError"  the call raised                           *)
(* log2 is computed in fixed point by the integer square-and-compare       *)
(* algorithm.  Float rounding, overflow and underflow are not modelled.    *)
(***************************************************************************)
EXTENDS Integers, Sequences, FiniteSets

\* ---------------------------------------------------------------- bounds
MaxMu == 2
MaxFn == 2
MaxV == 2
MaxGeom == 2
LgBits == 13

\* Fn and v are held in 1/Unit of a widget unit: 10 and 16 both divide it.
Unit == 5 * 16

\* np.linspace(..., 50) of the two 1D sweeps; np.linspace(..., 25) of the grid.
SweepCount == 50
GridCount == 25

\* ------------------------------------------------------- fixed-point log2
Pow2(k) == 2 ^ k

RECURSIVE FloorLog2(_)
FloorLog2(n) == IF n < 2 THEN 0 ELSE 1 + FloorLog2(n \div 2)

\* The fraction bits of log2 of a mantissa m in [2^LgBits, 2^(LgBits+1)).
RECURSIVE LgFrac(_, _)
LgFrac(m, bits) ==
    IF bits = 0 THEN 0
    ELSE LET sq == (m * m) \div Pow2(LgBits)
         IN  IF sq >= Pow2(LgBits + 1)
             THEN Pow2(bits - 1) + LgFrac(sq \div 2, bits - 1)
             ELSE LgFrac(sq, bits - 1)

LgCalc(n) ==
    LET k == FloorLog2(n)
    IN  k * Pow2(LgBits) + LgFrac((n * Pow2(LgBits)) \div Pow2(k), LgBits)

\* The largest magnitude a log is taken of: mu * Fn at the top of the Fn sweep.
MaxArg == 5 * MaxMu * (MaxFn + MaxV) * Unit

LgTable == [n \in 1..MaxArg |-> LgCalc(n)]

Abs(x) == IF x < 0 THEN -x ELSE x

\* 2^LgBits * log2 |x|, for x # 0.
Lg(x) == LgTable[Abs(x)]

\* ---------------------------------------------------------------- values
Zero == [kind |-> "zero", lg |-> 0]
Unset == [kind |-> "unset", lg |-> 0]
Raised == [kind |-> "ZeroDivisionError", lg |-> 0]
Complex == [kind |-> "complex", lg |-> 0]

IsReal(x) == x.kind \in {"pos", "neg", "zero"}

\* x < y on real results.
Lt(x, y) ==
    /\ IsReal(x) /\ IsReal(y)
    /\ \/ x.kind = "neg" /\ y.kind \in {"zero", "pos"}
       \/ x.kind = "zero" /\ y.kind = "pos"
       \/ x.kind = "pos" /\ y.kind = "pos" /\ x.lg < y.lg
       \/ x.kind = "neg" /\ y.kind = "neg" /\ x.lg > y.lg

\* x >= 0 on results.
NonNeg(x) == x.kind \in {"zero", "pos"}

\* ------------------------------------------------------------- the Model
\* Mutant: the exponent of r_d with its sign lost.
calc_delta_Tc_sign(mu_, Fn_, v_, r_, r_d_, b_, b_PTFE_) ==
    IF r_d_ = 0 \/ b_ = 0 THEN Raised
    ELSE IF v_ < 0 \/ r_ < 0 \/ r_d_ < 0 \/ b_ < 0 \/ b_PTFE_ < 0 THEN Complex
    ELSE IF mu_ * Fn_ = 0 \/ v_ = 0 \/ r_ = 0 \/ b_PTFE_ = 0 THEN Zero
    ELSE [kind |-> IF mu_ * Fn_ > 0 THEN "pos" ELSE "neg",
          lg   |-> 100 * (Lg(11) - Lg(100)) + 100 * Lg(mu_ * Fn_)
                   + 71 * Lg(v_) + 30 * Lg(r_) + 170 * Lg(r_d_)
                   - 23 * Lg(b_) + 36 * Lg(b_PTFE_)]

\* Mutant: mu + Fn in place of mu * Fn.
calc_delta_Tc_sum(mu_, Fn_, v_, r_, r_d_, b_, b_PTFE_) ==
    IF r_d_ = 0 \/ b_ = 0 THEN Raised
    ELSE IF v_ < 0 \/ r_ < 0 \/ r_d_ < 0 \/ b_ < 0 \/ b_PTFE_ < 0 THEN Complex
    ELSE IF mu_ + Fn_ = 0 \/ v_ = 0 \/ r_ = 0 \/ b_PTFE_ = 0 THEN Zero
    ELSE [kind |-> IF mu_ + Fn_ > 0 THEN "pos" ELSE "neg",
          lg   |-> 100 * (Lg(11) - Lg(100)) + 100 * Lg(mu_ + Fn_)
                   + 71 * Lg(v_) + 30 * Lg(r_) - 170 * Lg(r_d_)
                   - 23 * Lg(b_) + 36 * Lg(b_PTFE_)]

\* 0.11 * (mu*Fn) * v**0.71 * r**0.30 * r_d**(-1.70) * b**(-0.23) * b_PTFE**0.36
\* on Python floats: 0.0 ** negative raises ZeroDivisionError, a negative base
\* under a fractional exponent gives a complex number, 0.0 ** positive is 0.0,
\* and there is no check of the arguments.
calc_delta_Tc(mu_, Fn_, v_, r_, r_d_, b_, b_PTFE_) ==
    IF r_d_ = 0 \/ b_ = 0 THEN Raised
    ELSE IF v_ < 0 \/ r_ < 0 \/ r_d_ < 0 \/ b_ < 0 \/ b_PTFE_ < 0 THEN Complex
    ELSE IF mu_ * Fn_ = 0 \/ v_ = 0 \/ r_ = 0 \/ b_PTFE_ = 0 THEN Zero
    ELSE [kind |-> IF mu_ * Fn_ > 0 THEN "pos" ELSE "neg",
          lg   |-> 100 * (Lg(11) - Lg(100)) + 100 * Lg(mu_ * Fn_)
                   + 71 * Lg(v_) + 30 * Lg(r_) - 170 * Lg(r_d_)
                   - 23 * Lg(b_) + 36 * Lg(b_PTFE_)]

\* ------------------------------------------------------- numpy's linspace
\* Mutant: endpoint excluded (step = (stop - start) / num).
linspace_open(start, stop, num) ==
    [i \in 1..num |-> start + (i - 1) * ((stop - start) \div num)]

\* np.linspace(start, stop, num): step = (stop - start) / (num - 1),
\* y[i] = start + i * step, and the last sample is set to stop.
linspace(start, stop, num) ==
    [i \in 1..num |->
        IF i = num /\ num > 1 THEN stop
        ELSE start + (i - 1) * ((stop - start) \div (num - 1))]

\* x * (num / den) for the script's multipliers 0.1, 0.5, 2 and 5.
Times(x, num, den) == (x * num) \div den

\* ----------------------------------------------------------------- state
VARIABLES
    mu, Fn, v, r, r_d, b, b_PTFE,   \* the seven number_input widgets
    pc,                             \* where the script run stands
    outcome,                        \* "none", "error" (st.error), "success"
                                    \* (st.success) or "exception"
    message,                        \* what st.error / st.success rendered
    delta_Tc,                       \* the headline result
    v_range, delta_v,               \* the velocity sweep
    Fn_range, delta_fn,             \* the normal-force sweep
    v_grid, Fn_grid, heatmap,       \* the heatmap
    df_csv,                         \* the export record
    argLo, argHi, nCalls,           \* history of the calls of calc_delta_Tc
                                    \* in this run: per argument the least
                                    \* and the greatest value passed, and the
                                    \* number of calls
    d_args, d_kind, d_out           \* a use of the Model or of a sweep
                                    \* fragment outside the validated run

inputs == <<mu, Fn, v, r, r_d, b, b_PTFE>>
outputs == <<outcome, message, delta_Tc, v_range, delta_v, Fn_range, delta_fn,
             v_grid, Fn_grid, heatmap, df_csv, argLo, argHi, nCalls>>
direct == <<d_args, d_kind, d_out>>
vars == <<inputs, pc, outputs, direct>>

NoRecord == [columns |-> << >>, row |-> << >>]

\* What the widgets can hold: min_value 0.0 for mu, Fn, v; a positive
\* min_value for r, r_d, b, b_PTFE.
MuVals == 0..MaxMu
FnVals == {k * Unit : k \in 0..MaxFn}
VVals == {k * Unit : k \in 0..MaxV}
GeomVals == 1..MaxGeom

\* Every widget starts at its default value (value=...), taken as one widget
\* unit of its field.
DefaultInputs ==
    /\ mu = 1 /\ Fn = Unit /\ v = Unit
    /\ r = 1 /\ r_d = 1 /\ b = 1 /\ b_PTFE = 1

\* A rendered message: its text and the input fields the text names.
NoMessage == [text |-> "", fields |-> {}]
ErrorMessage ==
    [text |-> "All input values must be greater than zero.", fields |-> {}]
SuccessMessage == [text |-> "dTc = {delta_Tc:.2f} C", fields |-> {}]

NoOutputs ==
    /\ outcome = "none"
    /\ message = NoMessage
    /\ delta_Tc = Unset
    /\ v_range = << >> /\ delta_v = << >>
    /\ Fn_range = << >> /\ delta_fn = << >>
    /\ v_grid = << >> /\ Fn_grid = << >> /\ heatmap = << >>
    /\ df_csv = NoRecord
    /\ argLo = << >> /\ argHi = << >> /\ nCalls = 0

\* The result of a direct use: the value of a call, or the samples and the
\* cells of a sweep fragment, or that the fragment stopped on an exception.
NoCells == [value |-> Unset, xs |-> << >>, ys |-> << >>, cells |-> << >>,
            grid |-> << >>, aborted |-> FALSE]

NoDirect ==
    /\ d_args = << >> /\ d_kind = "none" /\ d_out = NoCells

Init ==
    /\ DefaultInputs
    /\ pc = "idle"
    /\ NoOutputs
    /\ NoDirect

\* A script run starts with nothing rendered and nothing computed.
Rerun ==
    /\ outcome' = "none"
    /\ message' = NoMessage
    /\ delta_Tc' = Unset
    /\ v_range' = << >> /\ delta_v' = << >>
    /\ Fn_range' = << >> /\ delta_fn' = << >>
    /\ v_grid' = << >> /\ Fn_grid' = << >> /\ heatmap' = << >>
    /\ df_csv' = NoRecord
    /\ argLo' = << >> /\ argHi' = << >> /\ nCalls' = 0

\* ------------------------------------------------------------ the script
\* A widget is edited once a run has ended: the script reruns with the
\* button not pressed.
SetInput ==
    /\ pc \in {"idle", "done"}
    /\ \/ \E x \in MuVals : mu' = x /\ UNCHANGED <<Fn, v, r, r_d, b, b_PTFE>>
       \/ \E x \in FnVals : Fn' = x /\ UNCHANGED <<mu, v, r, r_d, b, b_PTFE>>
       \/ \E x \in VVals : v' = x /\ UNCHANGED <<mu, Fn, r, r_d, b, b_PTFE>>
       \/ \E x \in GeomVals : r' = x /\ UNCHANGED <<mu, Fn, v, r_d, b, b_PTFE>>
       \/ \E x \in GeomVals : r_d' = x /\ UNCHANGED <<mu, Fn, v, r, b, b_PTFE>>
       \/ \E x \in GeomVals : b' = x /\ UNCHANGED <<mu, Fn, v, r, r_d, b_PTFE>>
       \/ \E x \in GeomVals : b_PTFE' = x /\ UNCHANGED <<mu, Fn, v, r, r_d, b>>
    /\ inputs' # inputs
    /\ pc' = "idle"
    /\ Rerun
    /\ UNCHANGED direct

\* st.button("Calculate ...") returns True: the run enters the if-body.
Calculate ==
    /\ pc \in {"idle", "done"}
    /\ pc' = "validate"
    /\ Rerun
    /\ UNCHANGED <<inputs, direct>>

\* Mutant: only the first field of the list is tested.
ZeroCheck_first == Fn = 0

\* 0 in [Fn, v, r, r_d, b, b_PTFE]
ZeroCheck == 0 \in {Fn, v, r, r_d, b, b_PTFE}

\* if 0 in [...]: st.error("All input values must be greater than zero.")
Validate ==
    /\ pc = "validate"
    /\ IF ZeroCheck
       THEN outcome' = "error" /\ message' = ErrorMessage /\ pc' = "done"
       ELSE UNCHANGED <<outcome, message>> /\ pc' = "headline"
    /\ UNCHANGED <<inputs, delta_Tc, v_range, delta_v, Fn_range, delta_fn,
                   v_grid, Fn_grid, heatmap, df_csv, argLo, argHi, nCalls,
                   direct>>

\* ------------------------------------------------------------ the sweeps
\* An argument tuple <<mu, Fn, v, r, r_d, b, b_PTFE>> and a call with it.
Calc(a) == calc_delta_Tc(a[1], a[2], a[3], a[4], a[5], a[6], a[7])
With(a, k, x) == [a EXCEPT ![k] = x]

\* The index of the first element that raised, 0 when none did: a list
\* comprehension stops at the first exception and assigns nothing.
FirstRaise(res) ==
    IF \E i \in DOMAIN res : res[i] = Raised
    THEN CHOOSE i \in DOMAIN res :
            /\ res[i] = Raised
            /\ \A k \in DOMAIN res : res[k] = Raised => i <= k
    ELSE 0

\* Mutant: the sweep starts at 0 instead of 0.1 * v.
v_range_of_zero(a) == linspace(0, Times(a[3], 5, 1), SweepCount)

\* v_range = np.linspace(v*0.1, v*5, 50)
v_range_of(a) == linspace(Times(a[3], 1, 10), Times(a[3], 5, 1), SweepCount)

\* delta_v = [calc_delta_Tc(mu, Fn, vi, r, r_d, b, b_PTFE) for vi in v_range]
delta_v_of(a, rng) == [i \in DOMAIN rng |-> Calc(With(a, 3, rng[i]))]

\* Fn_range = np.linspace(Fn*0.1, Fn*5, 50)
Fn_range_of(a) == linspace(Times(a[2], 1, 10), Times(a[2], 5, 1), SweepCount)

\* delta_fn = [calc_delta_Tc(mu, Fni, v, r, r_d, b, b_PTFE) for Fni in Fn_range]
delta_fn_of(a, rng) == [i \in DOMAIN rng |-> Calc(With(a, 2, rng[i]))]

\* v_grid = np.linspace(v*0.5, v*2, 25); Fn_grid = np.linspace(Fn*0.5, Fn*2, 25)
v_grid_of(a) == linspace(Times(a[3], 1, 2), Times(a[3], 2, 1), GridCount)
Fn_grid_of(a) == linspace(Times(a[2], 1, 2), Times(a[2], 2, 1), GridCount)

\* heatmap = np.zeros((len(Fn_grid), len(v_grid)))
zeros(rows, cols) == [i \in 1..rows |-> [j \in 1..cols |-> Zero]]

\* Mutant: the two loop variables swapped in the call.
heatmap_of_swapped(a, Fng, vg) ==
    [i \in 1..Len(Fng) |-> [j \in 1..Len(vg) |->
        Calc(With(With(a, 2, Fng[j]), 3, vg[i]))]]

\* for i, Fni in enumerate(Fn_grid): for j, vj in enumerate(v_grid):
\*     heatmap[i, j] = calc_delta_Tc(mu, Fni, vj, r, r_d, b, b_PTFE)
heatmap_of(a, Fng, vg) ==
    LET h0 == zeros(Len(Fng), Len(vg))
    IN  [i \in DOMAIN h0 |-> [j \in DOMAIN h0[i] |->
            Calc(With(With(a, 2, Fng[i]), 3, vg[j]))]]

\* The cells the nested loop reached, in row-major order: all of them, or
\* those up to the first cell that raised.
AnyRaised(hm) == \E i \in DOMAIN hm : \E j \in DOMAIN hm[i] : hm[i][j] = Raised
Before(c, d) == c[1] < d[1] \/ (c[1] = d[1] /\ c[2] <= d[2])
ReachedCells(hm) ==
    LET all == (DOMAIN hm) \X (1..GridCount)
        bad == {c \in all : hm[c[1]][c[2]] = Raised}
    IN  IF bad = {} THEN all
        ELSE LET first == CHOOSE c \in bad : \A d \in bad : Before(c, d)
             IN  {c \in all : Before(c, first)}

\* History: n calls were made with the arguments a, but with Fn ranging over
\* FnSet and v over vSet.
Least(S) == CHOOSE x \in S : \A y \in S : x <= y
Greatest(S) == CHOOSE x \in S : \A y \in S : x >= y
Called(a, FnSet, vSet, n) ==
    LET lo == With(With(a, 2, Least(FnSet)), 3, Least(vSet))
        hi == With(With(a, 2, Greatest(FnSet)), 3, Greatest(vSet))
    IN  /\ argLo' = IF argLo = << >> THEN lo
                    ELSE [k \in 1..7 |-> IF lo[k] < argLo[k] THEN lo[k] ELSE argLo[k]]
        /\ argHi' = IF argHi = << >> THEN hi
                    ELSE [k \in 1..7 |-> IF hi[k] > argHi[k] THEN hi[k] ELSE argHi[k]]
        /\ nCalls' = nCalls + n

\* delta_Tc = calc_delta_Tc(mu, Fn, v, r, r_d, b, b_PTFE); st.success(...)
Headline ==
    /\ pc = "headline"
    /\ LET res == calc_delta_Tc(mu, Fn, v, r, r_d, b, b_PTFE)
       IN  /\ Called(inputs, {Fn}, {v}, 1)
           /\ IF res = Raised
              THEN /\ outcome' = "exception" /\ pc' = "done"
                   /\ UNCHANGED <<delta_Tc, message>>
              ELSE /\ delta_Tc' = res
                   /\ outcome' = "success" /\ message' = SuccessMessage
                   /\ pc' = "sweep_v"
    /\ UNCHANGED <<inputs, v_range, delta_v, Fn_range, delta_fn,
                   v_grid, Fn_grid, heatmap, df_csv, direct>>

SweepV ==
    /\ pc = "sweep_v"
    /\ LET rng == v_range_of(inputs)
           res == delta_v_of(inputs, rng)
           k == FirstRaise(res)
           n == IF k = 0 THEN Len(rng) ELSE k
       IN  /\ v_range' = rng
           /\ Called(inputs, {Fn}, {rng[i] : i \in 1..n}, n)
           /\ IF k = 0
              THEN delta_v' = res /\ pc' = "sweep_fn" /\ UNCHANGED outcome
              ELSE UNCHANGED delta_v /\ pc' = "done" /\ outcome' = "exception"
    /\ UNCHANGED <<inputs, message, delta_Tc, Fn_range, delta_fn,
                   v_grid, Fn_grid, heatmap, df_csv, direct>>

SweepFn ==
    /\ pc = "sweep_fn"
    /\ LET rng == Fn_range_of(inputs)
           res == delta_fn_of(inputs, rng)
           k == FirstRaise(res)
           n == IF k = 0 THEN Len(rng) ELSE k
       IN  /\ Fn_range' = rng
           /\ Called(inputs, {rng[i] : i \in 1..n}, {v}, n)
           /\ IF k = 0
              THEN delta_fn' = res /\ pc' = "heatmap" /\ UNCHANGED outcome
              ELSE UNCHANGED delta_fn /\ pc' = "done" /\ outcome' = "exception"
    /\ UNCHANGED <<inputs, message, delta_Tc, v_range, delta_v,
                   v_grid, Fn_grid, heatmap, df_csv, direct>>

Heatmap ==
    /\ pc = "heatmap"
    /\ LET vg == v_grid_of(inputs)
           Fng == Fn_grid_of(inputs)
           hm == heatmap_of(inputs, Fng, vg)
           reached == ReachedCells(hm)
       IN  /\ v_grid' = vg
           /\ Fn_grid' = Fng
           /\ IF ~AnyRaised(hm)
              THEN /\ Called(inputs, {Fng[i] : i \in DOMAIN Fng},
                             {vg[j] : j \in DOMAIN vg}, Len(Fng) * Len(vg))
                   /\ heatmap' = hm /\ pc' = "export" /\ UNCHANGED outcome
              ELSE /\ Called(inputs, {Fng[c[1]] : c \in reached},
                             {vg[c[2]] : c \in reached}, Cardinality(reached))
                   /\ heatmap' = [i \in DOMAIN hm |-> [j \in DOMAIN hm[i] |->
                                    IF <<i, j>> \in reached /\ hm[i][j] # Raised
                                    THEN hm[i][j] ELSE Zero]]
                   /\ pc' = "done" /\ outcome' = "exception"
    /\ UNCHANGED <<inputs, message, delta_Tc, v_range, delta_v, Fn_range,
                   delta_fn, df_csv, direct>>

\* Mutant: two columns of the row swapped.
ExportRow_swapped == <<mu, Fn, v, r_d, r, b, b_PTFE, delta_Tc>>

\* The values of df_csv, in the order the dict lists them.
ExportRow == <<mu, Fn, v, r, r_d, b, b_PTFE, delta_Tc>>

ExportColumns == <<"mu", "Fn", "v", "r", "r_d", "b", "b_PTFE", "dT">>

Export ==
    /\ pc = "export"
    /\ df_csv' = [columns |-> ExportColumns, row |-> ExportRow]
    /\ pc' = "done"
    /\ UNCHANGED <<inputs, outcome, message, delta_Tc, v_range, delta_v,
                   Fn_range, delta_fn, v_grid, Fn_grid, heatmap,
                   argLo, argHi, nCalls, direct>>

Next ==
    \/ SetInput
    \/ Calculate
    \/ Validate
    \/ Headline
    \/ SweepV
    \/ SweepFn
    \/ Heatmap
    \/ Export

Spec == Init /\ [][Next]_vars

\* -------------------------------------- the Model and the sweeps, direct
\* calc_delta_Tc and the sweep fragments applied to arguments that did not
\* pass the zero check of the button handler: what a caller of the
\* function, or of a fragment, gets for zero and negative arguments.
DirectMu == {0, 1}
DirectLoad == {-Unit, 0, Unit}
DirectGeom == {-1, 0, 1}
DirectArgs ==
    DirectMu \X DirectLoad \X DirectLoad
             \X DirectGeom \X DirectGeom \X DirectGeom \X DirectGeom

\* The samples of a sweep are numpy floats, which agree with Python floats on
\* the bases >= 0 that the fragments are driven with.
DirectSweepArgs == {a \in DirectArgs : \A k \in 2..7 : a[k] >= 0}

InitDirect ==
    /\ DefaultInputs
    /\ pc = "idle"
    /\ NoOutputs
    /\ d_args \in DirectArgs /\ d_kind = "none" /\ d_out = NoCells

DirectCall ==
    /\ d_kind = "none"
    /\ d_out' = [NoCells EXCEPT !.value = Calc(d_args)]
    /\ d_kind' = "call"
    /\ UNCHANGED <<inputs, pc, outputs, d_args>>

DirectSweepV ==
    /\ d_kind = "none"
    /\ d_args \in DirectSweepArgs
    /\ LET rng == v_range_of(d_args)
           res == delta_v_of(d_args, rng)
       IN  d_out' = IF FirstRaise(res) = 0
                    THEN [NoCells EXCEPT !.xs = rng, !.cells = res]
                    ELSE [NoCells EXCEPT !.xs = rng, !.aborted = TRUE]
    /\ d_kind' = "sweep_v"
    /\ UNCHANGED <<inputs, pc, outputs, d_args>>

DirectSweepFn ==
    /\ d_kind = "none"
    /\ d_args \in DirectSweepArgs
    /\ LET rng == Fn_range_of(d_args)
           res == delta_fn_of(d_args, rng)
       IN  d_out' = IF FirstRaise(res) = 0
                    THEN [NoCells EXCEPT !.xs = rng, !.cells = res]
                    ELSE [NoCells EXCEPT !.xs = rng, !.aborted = TRUE]
    /\ d_kind' = "sweep_fn"
    /\ UNCHANGED <<inputs, pc, outputs, d_args>>

DirectHeatmap ==
    /\ d_kind = "none"
    /\ d_args \in DirectSweepArgs
    /\ LET vg == v_grid_of(d_args)
           Fng == Fn_grid_of(d_args)
           hm == heatmap_of(d_args, Fng, vg)
       IN  d_out' = IF ~AnyRaised(hm)
                    THEN [NoCells EXCEPT !.xs = vg, !.ys = Fng, !.grid = hm]
                    ELSE [NoCells EXCEPT !.xs = vg, !.ys = Fng,
                                         !.aborted = TRUE]
    /\ d_kind' = "heatmap"
    /\ UNCHANGED <<inputs, pc, outputs, d_args>>

NextDirect ==
    \/ DirectCall
    \/ DirectSweepV
    \/ DirectSweepFn
    \/ DirectHeatmap

SpecDirect == InitDirect /\ [][NextDirect]_vars

\* ================================================================ claims
ZeroFields ==
    {f \in {"Fn", "v", "r", "r_d", "b", "b_PTFE"} :
        \/ f = "Fn" /\ Fn = 0
        \/ f = "v" /\ v = 0
        \/ f = "r" /\ r = 0
        \/ f = "r_d" /\ r_d = 0
        \/ f = "b" /\ b = 0
        \/ f = "b_PTFE" /\ b_PTFE = 0}

Succeeded == pc = "done" /\ outcome = "success"

\* C1: when one of Fn, v, r, r_d, b, b_PTFE is zero, a calculate pass ends in
\* the error outcome, and at no point of the pass is there a headline dTc, a
\* 1D sweep, a heatmap, an export record or a call of the Model.
C1_ZeroInputRejected ==
    (ZeroFields # {} /\ pc # "idle") =>
        /\ pc \in {"validate", "done"}
        /\ pc = "done" => outcome = "error"
        /\ delta_Tc = Unset
        /\ delta_v = << >> /\ delta_fn = << >>
        /\ heatmap = << >>
        /\ df_csv = NoRecord
        /\ nCalls = 0 /\ argLo = << >> /\ argHi = << >>

C1_Witness == pc = "done" /\ outcome = "error" /\ v = 0 /\ Fn # 0

\* C2: when validation rejects the inputs, the error names exactly the fields
\* that are zero.
C2_ErrorNamesAllFields ==
    (pc = "done" /\ outcome = "error") => message.fields = ZeroFields

C4_ModelGuardsItself ==
    (d_kind = "call" /\ \E k \in 2..7 : d_args[k] <= 0) =>
        d_out.value.kind \in {"InvalidInputError", "ZeroDivisionError"}

\* C5: each 1D sweep is SweepCount (value, dTc) pairs in order, the values
\* linearly spaced from 0.1 x base to 5 x base inclusive, and each dTc is the
\* Model at that value with the six other fields at their base values.
C5_Sweep1D ==
    Succeeded =>
        /\ Len(v_range) = SweepCount /\ Len(delta_v) = SweepCount
        /\ Len(Fn_range) = SweepCount /\ Len(delta_fn) = SweepCount
        /\ 10 * v_range[1] = v /\ v_range[SweepCount] = 5 * v
        /\ 10 * Fn_range[1] = Fn /\ Fn_range[SweepCount] = 5 * Fn
        /\ \A i \in 1..SweepCount :
              /\ 10 * (SweepCount - 1) * v_range[i]
                    = (SweepCount - 1) * v + (i - 1) * (50 * v - v)
              /\ delta_v[i] =
                    calc_delta_Tc(mu, Fn, v_range[i], r, r_d, b, b_PTFE)
              /\ 10 * (SweepCount - 1) * Fn_range[i]
                    = (SweepCount - 1) * Fn + (i - 1) * (50 * Fn - Fn)
              /\ delta_fn[i] =
                    calc_delta_Tc(mu, Fn_range[i], v, r, r_d, b, b_PTFE)

C5_Witness ==
    /\ Succeeded /\ mu > 0
    /\ Len(delta_v) = SweepCount /\ delta_v[1] # delta_v[SweepCount]
    /\ Len(delta_fn) = SweepCount /\ delta_fn[1] # delta_fn[SweepCount]

\* C6: the heatmap is a GridCount x GridCount matrix whose cell [i, j] is the
\* Model at the i-th Fn sample and the j-th v sample, with mu, r, r_d, b and
\* b_PTFE at their base values; no cell keeps the initial 0 of np.zeros
\* unless the Model gives 0 there.
C6_Heatmap ==
    Succeeded =>
        /\ Len(Fn_grid) = GridCount /\ Len(v_grid) = GridCount
        /\ Len(heatmap) = GridCount
        /\ \A i \in 1..GridCount :
              /\ Len(heatmap[i]) = GridCount
              /\ \A j \in 1..GridCount :
                    /\ heatmap[i][j] =
                          calc_delta_Tc(mu, Fn_grid[i], v_grid[j],
                                        r, r_d, b, b_PTFE)
                    /\ heatmap[i][j] = Zero => mu = 0

C6_Witness ==
    /\ Succeeded /\ mu > 0
    /\ Len(heatmap) = GridCount
    /\ heatmap[1][GridCount] # heatmap[GridCount][1]
    /\ \A i \in 1..GridCount : \A j \in 1..GridCount : heatmap[i][j] # Zero

\* C7: with the other inputs fixed at positive values, dTc strictly increases
\* in mu, Fn, v, r and b_PTFE and strictly decreases in r_d and b; and with
\* mu > 0 the dTc values of the v sweep and of the Fn sweep strictly increase
\* along the sweep.
C7_Monotone ==
    Succeeded =>
        /\ \A x \in MuVals : x > mu =>
              Lt(delta_Tc, calc_delta_Tc(x, Fn, v, r, r_d, b, b_PTFE))
        /\ mu > 0 =>
              /\ \A x \in FnVals : x > Fn =>
                    Lt(delta_Tc, calc_delta_Tc(mu, x, v, r, r_d, b, b_PTFE))
              /\ \A x \in VVals : x > v =>
                    Lt(delta_Tc, calc_delta_Tc(mu, Fn, x, r, r_d, b, b_PTFE))
              /\ \A x \in GeomVals : x > r =>
                    Lt(delta_Tc, calc_delta_Tc(mu, Fn, v, x, r_d, b, b_PTFE))
              /\ \A x \in GeomVals : x > b_PTFE =>
                    Lt(delta_Tc, calc_delta_Tc(mu, Fn, v, r, r_d, b, x))
              /\ \A x \in GeomVals : x > r_d =>
                    Lt(calc_delta_Tc(mu, Fn, v, r, x, b, b_PTFE), delta_Tc)
              /\ \A x \in GeomVals : x > b =>
                    Lt(calc_delta_Tc(mu, Fn, v, r, r_d, x, b_PTFE), delta_Tc)
              /\ \A i \in 1..(SweepCount - 1) :
                    /\ Lt(delta_v[i], delta_v[i + 1])
                    /\ Lt(delta_fn[i], delta_fn[i + 1])

C7_Witness ==
    /\ Succeeded /\ mu = 1 /\ Fn = Unit /\ v = Unit
    /\ r = 1 /\ r_d = 1 /\ b = 1 /\ b_PTFE = 1
    /\ Lt(delta_v[1], delta_v[2])

\* C8: a sample point of a 1D sweep or of the grid at which the evaluation
\* fails (the swept value lands on zero, or the Model raises) is recorded as
\* an invalid cell, the other samples are still evaluated, and the sweep is
\* never aborted.
C8_SweepCellFailureLocal ==
    /\ d_kind \in {"sweep_v", "sweep_fn", "heatmap"} => ~d_out.aborted
    /\ d_kind \in {"sweep_v", "sweep_fn"} =>
          /\ Len(d_out.cells) = SweepCount
          /\ \A i \in 1..Len(d_out.cells) :
                d_out.xs[i] <= 0 => d_out.cells[i].kind = "invalid"
    /\ d_kind = "heatmap" =>
          /\ Len(d_out.grid) = GridCount
          /\ \A i \in 1..Len(d_out.grid) : \A j \in 1..Len(d_out.grid[i]) :
                (d_out.ys[i] <= 0 \/ d_out.xs[j] <= 0)
                   => d_out.grid[i][j].kind = "invalid"

\* C9: on a successful pass the Model has been called exactly once, for the
\* headline dTc, when the first sweep starts; the export record is one row of
\* eight fields in the order mu, Fn, v, r, r_d, b, b_PTFE, dT holding the
\* seven inputs of the pass and that headline dTc; and the sweeps and the
\* heatmap loop change none of these values.
C9_State ==
    /\ pc = "sweep_v" =>
          /\ nCalls = 1 /\ argLo = inputs /\ argHi = inputs
          /\ delta_Tc = calc_delta_Tc(mu, Fn, v, r, r_d, b, b_PTFE)
          /\ delta_v = << >> /\ delta_fn = << >> /\ heatmap = << >>
    /\ pc \in {"idle", "validate", "headline", "sweep_v", "sweep_fn",
               "heatmap", "export"} => df_csv = NoRecord
    /\ Succeeded =>
          /\ df_csv.columns =
                <<"mu", "Fn", "v", "r", "r_d", "b", "b_PTFE", "dT">>
          /\ Len(df_csv.row) = 8
          /\ df_csv.row[1] = mu /\ df_csv.row[2] = Fn /\ df_csv.row[3] = v
          /\ df_csv.row[4] = r /\ df_csv.row[5] = r_d /\ df_csv.row[6] = b
          /\ df_csv.row[7] = b_PTFE
          /\ df_csv.row[8] = delta_Tc
          /\ delta_Tc = calc_delta_Tc(mu, Fn, v, r, r_d, b, b_PTFE)

C9_Frame ==
    (pc \in {"sweep_v", "sweep_fn", "heatmap", "export"}
        /\ pc' \in {"sweep_fn", "heatmap", "export", "done"})
    => (inputs' = inputs /\ delta_Tc' = delta_Tc)

C9_ExportRecord == [](C9_State) /\ [][C9_Frame]_vars

C9_Witness == Succeeded /\ r # r_d /\ mu > 0 /\ Len(df_csv.row) = 8

====
